---- MODULE Spec2Model ----
(***************************************************************************)
(* The spell-correction command of llm-spell-correction: one run of main() *)
(* from getPreferenceValues() to the last notice, for the two entry points *)
(* the repository holds (src/llm-spell-correction.tsx, with per-provider   *)
(* model preferences and an API-token check, and the single-model variant  *)
(* kept next to it), the dispatcher and the three provider adapters.       *)
(*                                                                         *)
(* Strings that are only compared are TLA+ strings.  Strings that are cut  *)
(* or concatenated (texts, error messages, notices, JSON) are sequences of *)
(* string tokens, a text being a sequence of one-character tokens.         *)
(*                                                                         *)
(* The system prompt, the temperature and the token limit are resolved by  *)
(* main() and copied into the request body; they decide no branch and are  *)
(* left out of the request record.                                         *)
(***************************************************************************)
EXTENDS Naturals, Sequences, FiniteSets

VARIABLES
    variant,        \* which entry point runs
    preferences,    \* the object getPreferenceValues() returned
    pc,             \* position of main()
    apiProvider,    \* main's local apiProvider
    apiKey,         \* main's local apiKey
    model,          \* main's local model
    selectedText,   \* main's local selectedText
    response,       \* the HTTP response the adapter of this run received
    correctedText,  \* main's local correctedText
    error,          \* the value caught by main's catch block
    trace,          \* the positions this run went through
    adapterCalls,   \* adapters invoked in this run
    requests,       \* HTTP requests sent in this run
    clipboard,      \* texts written by Clipboard.paste in this run
    notices,        \* notices shown by showHUD in this run
    propagated      \* TRUE when main()'s promise rejected

vars == <<variant, preferences, pc, apiProvider, apiKey, model, selectedText,
          response, correctedText, error, trace, adapterCalls, requests,
          clipboard, notices, propagated>>

-----------------------------------------------------------------------------
(* Bounds *)

\* longest text a response carries
MaxLen == 3

-----------------------------------------------------------------------------
(* JavaScript values *)

\* the value of a preference that is not set
Undefined == "<undefined>"

\* `${v}`: undefined renders as the text "undefined"
Str(v) == IF v = Undefined THEN "undefined" ELSE v

\* !!v for a string or undefined
Truthy(v) == v # Undefined /\ v # ""

\* a || d
OrElse(v, d) == IF Truthy(v) THEN v ELSE d

\* the characters of a text: a letter and a line break
Chars == {"a", "\n"}

\* what String.prototype.trim removes: white space and line terminators
IsWhitespace(c) == c \in {" ", "\t", "\n", "\r"}

Texts == UNION {[1..n -> Chars] : n \in 0..MaxLen}

RECURSIVE TrimStart(_)
TrimStart(s) ==
    IF s = <<>> THEN s
    ELSE IF IsWhitespace(Head(s)) THEN TrimStart(Tail(s)) ELSE s

RECURSIVE TrimEnd(_)
TrimEnd(s) ==
    IF s = <<>> THEN s
    ELSE IF IsWhitespace(s[Len(s)]) THEN TrimEnd(SubSeq(s, 1, Len(s) - 1)) ELSE s

\* a plausible slip: only the leading whitespace goes
TrimLeadingOnly(s) == TrimStart(s)

\* String.prototype.trim
Trim(s) == TrimEnd(TrimStart(s))

-----------------------------------------------------------------------------
(* Entry points, providers, preferences *)

Main == "src/llm-spell-correction.tsx"
Legacy == "part_001"
Variants == {Main, Legacy}

Providers == {"openai", "claude", "llama"}

\* what the provider preference may hold: unset, empty, a provider, or junk
ProviderValues == {Undefined, ""} \cup Providers \cup {"bogus"}

KeyValues == {Undefined, "", "sk-1"}

\* an endpoint preference the host may hold; Preferences declares no such
\* key and nothing reads it
EndpointValues == {Undefined, "http://proxy.local/v1"}

ModelField(p) ==
    CASE p = "openai" -> "openaiModel"
      [] p = "claude" -> "claudeModel"
      [] p = "llama" -> "llamaModel"

CustomField(p) ==
    CASE p = "openai" -> "openaiCustomModel"
      [] p = "claude" -> "claudeCustomModel"
      [] p = "llama" -> "llamaCustomModel"

\* values of a provider's model preference and custom-model preference,
\* tagged by provider so that a value read from the wrong provider shows
ListedModel(p) ==
    CASE p = "openai" -> "gpt-4"
      [] p = "claude" -> "claude-3-opus"
      [] p = "llama" -> "mistral"

OwnModel(p) ==
    CASE p = "openai" -> "ft:gpt-mine"
      [] p = "claude" -> "claude-mine"
      [] p = "llama" -> "llama-mine"

ModelValues(p) == {Undefined, "", "custom", ListedModel(p)}
CustomValues(p) == {Undefined, "", "custom", OwnModel(p)}

NoPreferences ==
    [apiToken |-> Undefined, openAiToken |-> Undefined, apiProvider |-> Undefined,
     model |-> Undefined,
     openaiModel |-> Undefined, openaiCustomModel |-> Undefined,
     claudeModel |-> Undefined, claudeCustomModel |-> Undefined,
     llamaModel |-> Undefined, llamaCustomModel |-> Undefined,
     endpointUrl |-> Undefined]

\* every preference object of the current entry point
MainPreferences ==
    {[NoPreferences EXCEPT !.apiToken = k, !.apiProvider = p,
        !.openaiModel = om, !.openaiCustomModel = oc,
        !.claudeModel = cm, !.claudeCustomModel = cc,
        !.llamaModel = lm, !.llamaCustomModel = lc] :
        k \in KeyValues, p \in ProviderValues,
        om \in ModelValues("openai"), oc \in CustomValues("openai"),
        cm \in ModelValues("claude"), cc \in CustomValues("claude"),
        lm \in ModelValues("llama"), lc \in CustomValues("llama")}

\* every preference object of the single-model entry point
LegacyPreferences ==
    {[NoPreferences EXCEPT !.openAiToken = k, !.apiProvider = p, !.model = m] :
        k \in KeyValues, p \in ProviderValues, m \in ModelValues("openai")}

AllPreferences(v) == IF v = Main THEN MainPreferences ELSE LegacyPreferences

\* the model preferences the runs are started with: nothing set, a listed
\* model, the sentinel with a custom model
RunModels(p) ==
    {<<Undefined, Undefined>>, <<ListedModel(p), Undefined>>, <<"custom", OwnModel(p)>>}

\* the preference objects the runs are started with: the model preferences
\* are those of the selected provider and come from RunModels (ResolveSpec
\* covers every combination), and an endpoint preference may be set
RunPreferences(v) ==
    IF v = Main
    THEN UNION {{[NoPreferences EXCEPT !.apiToken = k, !.apiProvider = p,
                    ![ModelField(p)] = mc[1], ![CustomField(p)] = mc[2],
                    !.endpointUrl = e] :
                    k \in KeyValues, e \in EndpointValues, mc \in RunModels(p)} :
                p \in Providers}
         \cup
         {[NoPreferences EXCEPT !.apiToken = k, !.apiProvider = p, !.endpointUrl = e] :
             k \in KeyValues, p \in ProviderValues \ Providers, e \in EndpointValues}
    ELSE {[NoPreferences EXCEPT !.openAiToken = k, !.apiProvider = p, !.model = m,
             !.endpointUrl = e] :
             k \in KeyValues, p \in ProviderValues, e \in EndpointValues,
             m \in {Undefined, ListedModel("openai")}}

-----------------------------------------------------------------------------
(* HTTP responses *)

ErrorMessages == {"quota exceeded"}

\* the parsed body: an optional error object and at most one success field,
\* of the OpenAI shape (choices[0].message.content), the Claude shape
\* (content[0].text) or the local-model shape (response)
Datas ==
    {[hasError |-> FALSE, errorMessage |-> "", shape |-> "none", text |-> <<>>]}
    \cup {[hasError |-> FALSE, errorMessage |-> "", shape |-> sh, text |-> t] :
            sh \in Providers, t \in Texts}
    \cup {[hasError |-> TRUE, errorMessage |-> m, shape |-> "none", text |-> <<>>] :
            m \in ErrorMessages}
    \cup {[hasError |-> TRUE, errorMessage |-> m, shape |-> sh, text |-> t] :
            m \in ErrorMessages, sh \in Providers, t \in Texts}

NoData == [hasError |-> FALSE, errorMessage |-> "", shape |-> "none", text |-> <<>>]

\* a raw body: JSON text (compact, or with insignificant whitespace) holding
\* data, or text that is not JSON at all
Bodies ==
    {[valid |-> TRUE, spaced |-> sp, data |-> d] : sp \in BOOLEAN, d \in Datas}
    \cup {[valid |-> FALSE, spaced |-> FALSE, data |-> NoData]}

NoBody == [valid |-> FALSE, spaced |-> FALSE, data |-> NoData]

\* status "ok" is response.ok, "error" is a non-success status, "network"
\* is fetch() rejecting, "none" is no response at all
Responses ==
    {[status |-> st, body |-> b] : st \in {"ok", "error"}, b \in Bodies}
    \cup {[status |-> "network", body |-> NoBody]}

NoResponse == [status |-> "none", body |-> NoBody]

\* JSON string escaping of one character
Escape(c) == IF c = "\n" THEN "\\n" ELSE c

RECURSIVE Escaped(_)
Escaped(t) == IF t = <<>> THEN <<>> ELSE <<Escape(Head(t))>> \o Escaped(Tail(t))

SuccessTokens(d) ==
    CASE d.shape = "openai" ->
           <<"\"choices\":[{\"message\":{\"content\":\"">> \o Escaped(d.text) \o <<"\"}}]">>
      [] d.shape = "claude" ->
           <<"\"content\":[{\"text\":\"">> \o Escaped(d.text) \o <<"\"}]">>
      [] d.shape = "llama" ->
           <<"\"response\":\"">> \o Escaped(d.text) \o <<"\"">>
      [] OTHER -> <<>>

ErrorTokens(d) ==
    IF d.hasError THEN <<"\"error\":{\"message\":\"", d.errorMessage, "\"}">> ELSE <<>>

Members(d) ==
    IF SuccessTokens(d) # <<>> /\ ErrorTokens(d) # <<>>
    THEN SuccessTokens(d) \o <<",">> \o ErrorTokens(d)
    ELSE SuccessTokens(d) \o ErrorTokens(d)

\* JSON.stringify(data)
JSONStringify(d) == <<"{">> \o Members(d) \o <<"}">>

\* the text of a raw body as it came over the wire
RawText(b) ==
    IF ~b.valid THEN <<"<html>502 Bad Gateway</html>">>
    ELSE IF b.spaced THEN <<"{", "\n  ">> \o Members(b.data) \o <<"\n", "}">>
    ELSE JSONStringify(b.data)

-----------------------------------------------------------------------------
(* Errors and adapter outcomes *)

NoError == [name |-> "none", message |-> <<>>, at |-> "none"]

NoText == [set |-> FALSE, text |-> <<>>]

Returns(t) == [kind |-> "return", text |-> t, name |-> "none", message |-> <<>>]

Throws(n, m) == [kind |-> "throw", text |-> <<>>, name |-> n, message |-> m]

\* fetch() rejecting: the transport's message
NetworkFailure(url) == Throws("FetchError", <<"request to ", url, " failed">>)

\* response.json() rejecting on a body that is not JSON
ParseFailure(url) ==
    Throws("FetchError", <<"invalid json response body at ", url, " reason: Unexpected token">>)

\* reading a property of a field the body does not have
MissingField(prop) ==
    Throws("TypeError", <<"Cannot read properties of undefined (reading '", prop, "')">>)

\* a table with the OpenAI and Claude endpoints exchanged
API_URLS_swapped ==
    [openai |-> "https://api.anthropic.com/v1/messages",
     llama |-> "http://localhost:11434/api/generate",
     claude |-> "https://api.openai.com/v1/chat/completions"]

API_URLS ==
    [openai |-> "https://api.openai.com/v1/chat/completions",
     llama |-> "http://localhost:11434/api/generate",
     claude |-> "https://api.anthropic.com/v1/messages"]

\* data.error?.message inside a template literal
ErrorField(d) == IF d.hasError THEN d.errorMessage ELSE Str(Undefined)

-----------------------------------------------------------------------------
(* The three adapters: the request each sends and what each makes of the
   response *)

OpenAIRequest(inputText, key, mdl) ==
    [url |-> API_URLS.openai, auth |-> <<"Authorization", "Bearer ", Str(key)>>,
     model |-> mdl, input |-> inputText]

ClaudeRequest(inputText, key, mdl) ==
    [url |-> API_URLS.claude, auth |-> <<"x-api-key", Str(key)>>,
     model |-> mdl, input |-> inputText]

LlamaRequest(inputText, mdl) ==
    [url |-> API_URLS.llama, auth |-> <<>>, model |-> mdl, input |-> inputText]

\* an adapter that returns the content without looking at the status
correctWithOpenAI_ignoringStatus(resp) ==
    IF resp.status = "network" THEN NetworkFailure(API_URLS.openai)
    ELSE IF ~resp.body.valid THEN ParseFailure(API_URLS.openai)
    ELSE IF resp.body.data.shape = "openai" THEN Returns(Trim(resp.body.data.text))
    ELSE MissingField("0")

correctWithOpenAI(resp) ==
    IF resp.status = "network" THEN NetworkFailure(API_URLS.openai)
    ELSE IF ~resp.body.valid THEN ParseFailure(API_URLS.openai)
    ELSE IF resp.status # "ok"
         THEN Throws("Error", <<"OpenAI API error: ", ErrorField(resp.body.data)>>)
    ELSE IF resp.body.data.shape = "openai" THEN Returns(Trim(resp.body.data.text))
    ELSE MissingField("0")

correctWithClaude(resp) ==
    IF resp.status = "network" THEN NetworkFailure(API_URLS.claude)
    ELSE IF ~resp.body.valid THEN ParseFailure(API_URLS.claude)
    ELSE IF resp.status # "ok"
         THEN Throws("Error", <<"Claude API error: ", ErrorField(resp.body.data)>>)
    ELSE IF resp.body.data.shape = "claude" THEN Returns(Trim(resp.body.data.text))
    ELSE MissingField("0")

correctWithLlama(resp) ==
    IF resp.status = "network" THEN NetworkFailure(API_URLS.llama)
    ELSE IF ~resp.body.valid THEN ParseFailure(API_URLS.llama)
    ELSE IF resp.status # "ok"
         THEN Throws("Error", <<"LLaMA API error: ">> \o JSONStringify(resp.body.data))
    ELSE IF resp.body.data.shape = "llama" THEN Returns(Trim(resp.body.data.text))
    ELSE MissingField("trim")

\* a dispatcher whose default branch falls through to the last adapter
correctText_fallthrough(provider) ==
    CASE provider = "openai" -> "openai"
      [] provider = "claude" -> "claude"
      [] OTHER -> "llama"

\* the switch of correctText: the adapter a provider value selects
correctText(provider) ==
    CASE provider = "openai" -> "openai"
      [] provider = "claude" -> "claude"
      [] provider = "llama" -> "llama"
      [] OTHER -> "unsupported"

-----------------------------------------------------------------------------
(* Configuration resolution *)

\* the API-token check of the current entry point
TokenMissing(provider, key) == provider \in {"openai", "claude"} /\ ~Truthy(key)

DefaultModel(p) ==
    CASE p = "openai" -> "gpt-3.5-turbo"
      [] p = "claude" -> "claude-3-sonnet-20240229"
      [] p = "llama" -> "llama2"

\* a resolver that forgets the "custom" sentinel
ResolveModel_noSentinel(prefs, p) == OrElse(prefs[ModelField(p)], DefaultModel(p))

\* the model switch of the current entry point, for a recognised provider
ResolveModel(prefs, p) ==
    IF prefs[ModelField(p)] = "custom"
    THEN OrElse(prefs[CustomField(p)], DefaultModel(p))
    ELSE OrElse(prefs[ModelField(p)], DefaultModel(p))

-----------------------------------------------------------------------------
(* main(): one action per awaited step *)

SelectionTexts == {<<"T", "h", "s">>, <<"t", "s", "e", "t">>}

SelectionFailure ==
    [name |-> "Error", message |-> <<"Unable to get selected text from frontmost application">>]

HudFailure == [name |-> "Error", message |-> <<"Unable to show HUD">>]

PasteFailure == [name |-> "Error", message |-> <<"Unable to paste">>]

ProgressNotice == <<"Correcting text...">>

SuccessNotice == <<"Text corrected!">>

\* the notice of the catch block
FailureNotice(e) == <<"Error: ">> \o e.message

\* an order in which the request goes out before the in-progress notice
Successor_dispatchFirst(at) ==
    CASE at = "ResolvingConfig" -> "AwaitingSelection"
      [] at = "AwaitingSelection" -> "Requesting"
      [] at = "Requesting" -> "Notifying"
      [] at = "Notifying" -> "Completing"
      [] at = "Completing" -> "NotifyingSuccess"
      [] at = "NotifyingSuccess" -> "Idle"

\* the statement order of the try block: where a step that succeeded leads
Successor(at) ==
    CASE at = "ResolvingConfig" -> "AwaitingSelection"
      [] at = "AwaitingSelection" -> "Notifying"
      [] at = "Notifying" -> "Requesting"
      [] at = "Requesting" -> "Completing"
      [] at = "Completing" -> "NotifyingSuccess"
      [] at = "NotifyingSuccess" -> "Idle"

\* a paste that also copies: the clipboard is written twice
ClipboardPaste_twice(clip, text) == Append(Append(clip, text), text)

\* Clipboard.paste(text)
ClipboardPaste(clip, text) == Append(clip, text)

\* the step at pc succeeded
Proceed ==
    /\ pc' = Successor(pc)
    /\ trace' = IF Successor(pc) = "Idle" THEN trace ELSE Append(trace, Successor(pc))

\* the step at pc threw e: control passes to the catch block
Catch(e) ==
    /\ pc' = "Failed"
    /\ trace' = Append(trace, "Failed")
    /\ error' = [name |-> e.name, message |-> e.message, at |-> pc]

TypeOK ==
    /\ variant \in Variants
    /\ pc \in {"Idle", "ResolvingConfig", "AwaitingSelection", "Notifying", "Requesting",
               "Completing", "NotifyingSuccess", "Failed"}
    /\ propagated \in BOOLEAN
    /\ correctedText.set \in BOOLEAN
    /\ response.status \in {"none", "ok", "error", "network"}

Init ==
    /\ variant \in Variants
    /\ preferences = NoPreferences
    /\ pc = "Idle"
    /\ apiProvider = Undefined
    /\ apiKey = Undefined
    /\ model = Undefined
    /\ selectedText = <<>>
    /\ response = NoResponse
    /\ correctedText = NoText
    /\ error = NoError
    /\ trace = <<>>
    /\ adapterCalls = <<>>
    /\ requests = <<>>
    /\ clipboard = <<>>
    /\ notices = <<>>
    /\ propagated = FALSE

\* the command is run: main() starts and reads the preferences
Start ==
    /\ pc = "Idle"
    /\ trace = <<>>
    /\ preferences' \in RunPreferences(variant)
    /\ pc' = "ResolvingConfig"
    /\ trace' = <<"ResolvingConfig">>
    /\ apiProvider' = Undefined
    /\ apiKey' = Undefined
    /\ model' = Undefined
    /\ selectedText' = <<>>
    /\ response' = NoResponse
    /\ correctedText' = NoText
    /\ error' = NoError
    /\ adapterCalls' = <<>>
    /\ requests' = <<>>
    /\ clipboard' = <<>>
    /\ notices' = <<>>
    /\ propagated' = FALSE
    /\ UNCHANGED variant

\* the provider, the key and the model are worked out of the preferences
ResolveConfig ==
    /\ pc = "ResolvingConfig"
    /\ IF variant = Main
       THEN /\ apiProvider' = preferences.apiProvider
            /\ apiKey' = preferences.apiToken
            /\ IF TokenMissing(preferences.apiProvider, preferences.apiToken)
               THEN /\ Catch([name |-> "Error",
                              message |-> <<"API token is required for ",
                                            Str(preferences.apiProvider)>>])
                    /\ UNCHANGED model
               ELSE IF preferences.apiProvider \notin Providers
               THEN /\ Catch([name |-> "Error",
                              message |-> <<"Unsupported provider: ",
                                            Str(preferences.apiProvider)>>])
                    /\ UNCHANGED model
               ELSE /\ model' = ResolveModel(preferences, preferences.apiProvider)
                    /\ Proceed
                    /\ UNCHANGED error
       ELSE /\ apiKey' = preferences.openAiToken
            /\ model' = OrElse(preferences.model, "gpt-4o-mini")
            /\ apiProvider' = OrElse(preferences.apiProvider, "openai")
            /\ Proceed
            /\ UNCHANGED error
    /\ UNCHANGED <<variant, preferences, selectedText, response, correctedText,
                   adapterCalls, requests, clipboard, notices, propagated>>

\* await getSelectedText()
GetSelectedText ==
    /\ pc = "AwaitingSelection"
    /\ \/ \E t \in SelectionTexts :
             /\ selectedText' = t
             /\ Proceed
             /\ UNCHANGED error
       \/ /\ Catch(SelectionFailure)
          /\ UNCHANGED selectedText
    /\ UNCHANGED <<variant, preferences, apiProvider, apiKey, model, response,
                   correctedText, adapterCalls, requests, clipboard, notices, propagated>>

\* await showHUD("Correcting text...")
ShowProgress ==
    /\ pc = "Notifying"
    /\ \/ /\ notices' = Append(notices, ProgressNotice)
          /\ Proceed
          /\ UNCHANGED error
       \/ /\ Catch(HudFailure)
          /\ UNCHANGED notices
    /\ UNCHANGED <<variant, preferences, apiProvider, apiKey, model, selectedText,
                   response, correctedText, adapterCalls, requests, clipboard, propagated>>

\* the key main() hands to correctText
KeyArgument == IF variant = Main THEN OrElse(apiKey, "") ELSE apiKey

\* an adapter sent req, received resp and came to outcome
Exchange(name, req, resp, outcome) ==
    /\ adapterCalls' = Append(adapterCalls, name)
    /\ requests' = Append(requests, req)
    /\ response' = resp
    /\ IF outcome.kind = "return"
       THEN /\ correctedText' = [set |-> TRUE, text |-> outcome.text]
            /\ Proceed
            /\ UNCHANGED error
       ELSE /\ Catch(outcome)
            /\ UNCHANGED correctedText
    /\ UNCHANGED <<variant, preferences, apiProvider, apiKey, model, selectedText,
                   clipboard, notices, propagated>>

CallOpenAI ==
    /\ pc = "Requesting"
    /\ correctText(apiProvider) = "openai"
    /\ \E resp \in Responses :
          Exchange("openai", OpenAIRequest(selectedText, KeyArgument, model), resp,
                   correctWithOpenAI(resp))

CallClaude ==
    /\ pc = "Requesting"
    /\ correctText(apiProvider) = "claude"
    /\ \E resp \in Responses :
          Exchange("claude", ClaudeRequest(selectedText, KeyArgument, model), resp,
                   correctWithClaude(resp))

CallLlama ==
    /\ pc = "Requesting"
    /\ correctText(apiProvider) = "llama"
    /\ \E resp \in Responses :
          Exchange("llama", LlamaRequest(selectedText, model), resp,
                   correctWithLlama(resp))

\* the default branch of correctText
RejectProvider ==
    /\ pc = "Requesting"
    /\ correctText(apiProvider) = "unsupported"
    /\ Catch([name |-> "Error",
              message |-> <<"Unsupported API provider: ", Str(apiProvider)>>])
    /\ UNCHANGED <<variant, preferences, apiProvider, apiKey, model, selectedText,
                   response, correctedText, adapterCalls, requests, clipboard,
                   notices, propagated>>

\* await Clipboard.paste(correctedText)
Paste ==
    /\ pc = "Completing"
    /\ \/ /\ clipboard' = ClipboardPaste(clipboard, correctedText.text)
          /\ Proceed
          /\ UNCHANGED error
       \/ /\ Catch(PasteFailure)
          /\ UNCHANGED clipboard
    /\ UNCHANGED <<variant, preferences, apiProvider, apiKey, model, selectedText,
                   response, correctedText, adapterCalls, requests, notices, propagated>>

\* await showHUD("Text corrected!")
ShowSuccess ==
    /\ pc = "NotifyingSuccess"
    /\ \/ /\ notices' = Append(notices, SuccessNotice)
          /\ Proceed
          /\ UNCHANGED error
       \/ /\ Catch(HudFailure)
          /\ UNCHANGED notices
    /\ UNCHANGED <<variant, preferences, apiProvider, apiKey, model, selectedText,
                   response, correctedText, adapterCalls, requests, clipboard, propagated>>

\* the catch block: await showHUD(`Error: ...`); a rejection of this call is
\* outside the try block and rejects main()
ShowFailure ==
    /\ pc = "Failed"
    /\ pc' = "Idle"
    /\ \/ /\ notices' = Append(notices, FailureNotice(error))
          /\ UNCHANGED propagated
       \/ /\ propagated' = TRUE
          /\ UNCHANGED notices
    /\ UNCHANGED <<variant, preferences, apiProvider, apiKey, model, selectedText,
                   response, correctedText, error, trace, adapterCalls, requests,
                   clipboard>>

\* main() has settled and the command is unloaded: every value of the run
\* goes out of scope
Unload ==
    /\ pc = "Idle"
    /\ trace # <<>>
    /\ preferences' = NoPreferences
    /\ apiProvider' = Undefined
    /\ apiKey' = Undefined
    /\ model' = Undefined
    /\ selectedText' = <<>>
    /\ response' = NoResponse
    /\ correctedText' = NoText
    /\ error' = NoError
    /\ trace' = <<>>
    /\ adapterCalls' = <<>>
    /\ requests' = <<>>
    /\ clipboard' = <<>>
    /\ notices' = <<>>
    /\ propagated' = FALSE
    /\ UNCHANGED <<variant, pc>>

Next ==
    \/ Start
    \/ ResolveConfig
    \/ GetSelectedText
    \/ ShowProgress
    \/ CallOpenAI
    \/ CallClaude
    \/ CallLlama
    \/ RejectProvider
    \/ Paste
    \/ ShowSuccess
    \/ ShowFailure
    \/ Unload

Spec == Init /\ [][Next]_vars

\* configuration resolution alone, over every preference object
ResolveInit ==
    /\ variant \in Variants
    /\ preferences \in AllPreferences(variant)
    /\ pc = "ResolvingConfig"
    /\ trace = <<"ResolvingConfig">>
    /\ apiProvider = Undefined
    /\ apiKey = Undefined
    /\ model = Undefined
    /\ selectedText = <<>>
    /\ response = NoResponse
    /\ correctedText = NoText
    /\ error = NoError
    /\ adapterCalls = <<>>
    /\ requests = <<>>
    /\ clipboard = <<>>
    /\ notices = <<>>
    /\ propagated = FALSE

ResolveSpec == ResolveInit /\ [][ResolveConfig]_vars

-----------------------------------------------------------------------------
(* Vocabulary of the properties *)

\* the provider and the key the preferences hold, before any defaulting
RawProvider == preferences.apiProvider
RawKey == IF variant = Main THEN preferences.apiToken ELSE preferences.openAiToken

\* configuration resolution has come to an end, one way or the other
ResolutionOver == Len(trace) >= 2

\* main() has settled
RunOver == pc = "Idle" /\ trace # <<>>

\* an adapter was invoked and got its answer from the HTTP layer
AdapterAnswered == response.status # "none"

Adapter == adapterCalls[1]

Last(q) == q[Len(q)]

IsPrefix(q, r) == Len(q) <= Len(r) /\ q = SubSeq(r, 1, Len(q))

Occurs(x, q) == \E i \in DOMAIN q : q[i] = x

\* the six steps of a run, in the order the specification gives them
Order ==
    <<"ResolvingConfig", "AwaitingSelection", "Notifying", "Requesting", "Completing",
      "NotifyingSuccess">>

\* the steps of the run, without the closing Failed
StepsTaken ==
    IF trace # <<>> /\ Last(trace) = "Failed" THEN SubSeq(trace, 1, Len(trace) - 1)
    ELSE trace

FailureNotices == {i \in DOMAIN notices : notices[i][1] = "Error: "}

\* the documented endpoints and labels, as the specification lists them
DocumentedUrl(p) ==
    CASE p = "openai" -> "https://api.openai.com/v1/chat/completions"
      [] p = "claude" -> "https://api.anthropic.com/v1/messages"
      [] p = "llama" -> "http://localhost:11434/api/generate"

DocumentedDefault(p) ==
    CASE p = "openai" -> "gpt-3.5-turbo"
      [] p = "claude" -> "claude-3-sonnet-20240229"
      [] p = "llama" -> "llama2"

ErrorLabel(p) ==
    CASE p = "openai" -> "OpenAI API error: "
      [] p = "claude" -> "Claude API error: "
      [] p = "llama" -> "LLaMA API error: "

\* r is t without its leading and trailing whitespace, and nothing else changed
IsTrimOf(r, t) ==
    \E i \in 0..Len(t) : \E j \in 0..(Len(t) - i) :
        /\ r = SubSeq(t, i + 1, Len(t) - j)
        /\ \A k \in 1..i : IsWhitespace(t[k])
        /\ \A k \in (Len(t) - j + 1)..Len(t) : IsWhitespace(t[k])
        /\ r # <<>> => ~IsWhitespace(r[1]) /\ ~IsWhitespace(Last(r))

-----------------------------------------------------------------------------
(* C1 *)

\* C1: when the configured provider is openai or claude and the API key
\* preference is empty or absent, the run fails during configuration
\* resolution with an error that names the provider, before the selection is
\* read, before any adapter is called and without any HTTP request.
C1_MissingKeyFailsInResolution ==
    (RawProvider \in {"openai", "claude"} /\ ~Truthy(RawKey) /\ ResolutionOver) =>
        /\ trace = <<"ResolvingConfig", "Failed">>
        /\ error.at = "ResolvingConfig"
        /\ Occurs(RawProvider, error.message)
        /\ selectedText = <<>>
        /\ adapterCalls = <<>>
        /\ requests = <<>>

\* the same, of the entry point that checks the token
C1_HoldsWhereTheTokenIsChecked == variant = Main => C1_MissingKeyFailsInResolution

-----------------------------------------------------------------------------
(* C2 *)

\* C2: the clipboard is written at most once in a run, and only with the text
\* the adapter returned; a run that failed in configuration resolution, in
\* selection acquisition or in the adapter call never writes it.
C2_ClipboardOnlyAfterSuccess ==
    /\ Len(clipboard) <= 1
    /\ clipboard # <<>> =>
          /\ correctedText.set
          /\ clipboard = <<correctedText.text>>
          /\ Len(adapterCalls) = 1
          /\ correctText(apiProvider) = Adapter
          /\ response.status = "ok"
    /\ error.at \in {"ResolvingConfig", "AwaitingSelection", "Requesting"} =>
          clipboard = <<>>
    /\ ~correctedText.set => clipboard = <<>>

\* a run that wrote the clipboard has ended
W_C2 == RunOver /\ Len(clipboard) = 1

-----------------------------------------------------------------------------
(* C3 *)

\* C3: every failure raised in configuration resolution, selection
\* acquisition, the in-progress notice or the adapter call is caught once and
\* gives exactly one failure notice holding its message; nothing propagates
\* out of main, and the success notice is not shown.
C3_EveryFailureBecomesOneNotice ==
    (RunOver /\ error.at \in {"ResolvingConfig", "AwaitingSelection", "Notifying", "Requesting"}) =>
        /\ ~propagated
        /\ Cardinality(FailureNotices) = 1
        /\ Last(notices) = <<"Error: ">> \o error.message
        /\ ~Occurs(SuccessNotice, notices)
        /\ Cardinality({i \in DOMAIN trace : trace[i] = "Failed"}) = 1

-----------------------------------------------------------------------------
(* C4 *)

\* C4: the steps of a run happen in the order resolve, select, in-progress
\* notice, dispatch, paste, success notice, each at most once and only after
\* the earlier ones succeeded; a failure leads to Failed and then to Idle; a
\* run that has started can always go on until it is back in Idle.
C4_StepsInOrder ==
    /\ IsPrefix(StepsTaken, Order)
    /\ pc # "Idle" => trace # <<>> /\ pc = Last(trace)
    /\ RunOver => Last(trace) = "Failed" \/ trace = Order
    /\ error # NoError <=> (trace # <<>> /\ Last(trace) = "Failed")
    /\ error # NoError => error.at = Last(StepsTaken)
    /\ pc # "Idle" => ENABLED Next
    /\ selectedText # <<>> => Occurs("Notifying", trace)
    /\ Occurs(ProgressNotice, notices) => Occurs("Requesting", trace)
    /\ Len(requests) <= 1 /\ Len(adapterCalls) <= 1
    /\ requests # <<>> => Occurs("Requesting", trace) /\ Occurs(ProgressNotice, notices)
    /\ correctedText.set => Occurs("Completing", trace)
    /\ clipboard # <<>> => Occurs("NotifyingSuccess", trace)
    /\ Occurs(SuccessNotice, notices) => trace = Order /\ pc = "Idle"

\* a run went through all six steps and is over
W_C4 == RunOver /\ trace = Order /\ Last(notices) = SuccessNotice

\* C4, second part: the catch block is entered only from a step of the try
\* block and is left only for Idle
C4_FailedGoesToIdle ==
    [][/\ pc = "Failed" => pc' = "Idle"
       /\ pc' = "Failed" => pc \in {"ResolvingConfig", "AwaitingSelection", "Notifying",
                                     "Requesting", "Completing", "NotifyingSuccess"}]_vars

-----------------------------------------------------------------------------
(* C5 *)

\* C5 as stated: on a non-success status each adapter fails and returns no
\* text, and the message of the error equals the error.message field of the
\* body (OpenAI, Claude) or the raw body (local model).
C5_MessageEqualsErrorField ==
    (AdapterAnswered /\ response.status = "error" /\ response.body.valid
        /\ (Adapter \in {"openai", "claude"} => response.body.data.hasError)) =>
        /\ error.at = "Requesting"
        /\ ~correctedText.set
        /\ error.message = IF Adapter \in {"openai", "claude"}
                           THEN <<response.body.data.errorMessage>>
                           ELSE RawText(response.body)

\* C5 amended: on a non-success status each adapter fails and returns no
\* text.  When the body is JSON the message is the adapter's label followed
\* by the error.message field of the body ("undefined" when the body has
\* none) for OpenAI and Claude, and by the re-serialised JSON of the body for
\* the local model, which is the raw body when that was compact JSON.  When
\* the body is not JSON the failure is the one response.json() raised.
C5_MessageIsLabelThenErrorField ==
    (AdapterAnswered /\ response.status = "error") =>
        /\ error.at = "Requesting"
        /\ Last(trace) = "Failed"
        /\ ~correctedText.set
        /\ clipboard = <<>>
        /\ IF response.body.valid
           THEN /\ error.name = "Error"
                /\ Head(error.message) = ErrorLabel(Adapter)
                /\ Adapter \in {"openai", "claude"} =>
                      Tail(error.message) =
                         <<IF response.body.data.hasError
                           THEN response.body.data.errorMessage ELSE "undefined">>
                /\ Adapter = "llama" =>
                      /\ Tail(error.message) = JSONStringify(response.body.data)
                      /\ ~response.body.spaced =>
                            Tail(error.message) = RawText(response.body)
                      /\ response.body.spaced =>
                            Tail(error.message) # RawText(response.body)
           ELSE error.name = "FetchError"

\* the OpenAI adapter failed on a non-success status whose body names an error
W_C5 ==
    /\ pc = "Failed"
    /\ adapterCalls = <<"openai">>
    /\ response.status = "error"
    /\ response.body.valid
    /\ response.body.data.hasError
    /\ error.message = <<"OpenAI API error: ", "quota exceeded">>

-----------------------------------------------------------------------------
(* C6 *)

\* C6: for the OpenAI and Claude adapters a body that carries an error object
\* makes the call fail with a provider error carrying the provider's message,
\* whatever the HTTP status: never a returned text, never another error.
C6_ErrorObjectAlwaysFails ==
    (AdapterAnswered /\ Adapter \in {"openai", "claude"}
        /\ response.status \in {"ok", "error"}
        /\ response.body.valid /\ response.body.data.hasError) =>
        /\ ~correctedText.set
        /\ error.at = "Requesting"
        /\ error.name = "Error"
        /\ Head(error.message) = ErrorLabel(Adapter)
        /\ Occurs(response.body.data.errorMessage, error.message)

-----------------------------------------------------------------------------
(* C7 *)

\* C7: on a success status with a body of the provider's success shape the
\* adapter returns the text of the documented success field with leading and
\* trailing whitespace removed and nothing else changed, and what the command
\* writes to the clipboard is exactly that text.
C7_ReturnsTrimmedSuccessField ==
    (AdapterAnswered /\ response.status = "ok" /\ response.body.valid
        /\ response.body.data.shape = Adapter) =>
        /\ correctedText.set
        /\ IsTrimOf(correctedText.text, response.body.data.text)
        /\ error.at # "Requesting"
        /\ Occurs("Completing", trace)
        /\ clipboard # <<>> => clipboard = <<correctedText.text>>
        /\ Occurs("NotifyingSuccess", trace) => clipboard = <<correctedText.text>>

\* a text with whitespace on both sides came back, was trimmed and pasted
W_C7 ==
    /\ response.status = "ok"
    /\ response.body.data.text = <<"\n", "a", "\n">>
    /\ clipboard = <<(<<"a">>)>>

-----------------------------------------------------------------------------
(* C8 *)

\* C8 as stated: when the provider value is none of openai, claude, llama (a
\* string that is not recognised, or no value) no adapter is invoked, no HTTP
\* request is sent, the run never gets to the paste, and the failure raised
\* where the provider is looked at is the unsupported-provider error.
C8_UnrecognisedOrAbsentIsRejected ==
    (RawProvider \notin Providers /\ ResolutionOver) =>
        /\ adapterCalls = <<>>
        /\ requests = <<>>
        /\ ~Occurs("Completing", trace)
        /\ RunOver => error # NoError
        /\ error.at \in {"ResolvingConfig", "Requesting"} =>
              error.message \in {<<"Unsupported provider: ", Str(RawProvider)>>,
                                 <<"Unsupported API provider: ", Str(RawProvider)>>}

\* the provider values each entry point rejects: the current one rejects
\* every value that is not a provider, the single-model one defaults an
\* absent or empty value to openai and rejects the rest
Rejected(v, p) == p \notin Providers /\ (v = Legacy => Truthy(p))

\* C8 amended: a provider value that is a non-empty string other than openai,
\* claude, llama - and, in the entry point that does not default the
\* provider, an absent or empty one - makes the run fail without any adapter
\* invoked, any HTTP request sent or any paste; the failure is the
\* unsupported-provider error unless the selection or the in-progress notice
\* failed first.  The single-model entry point runs the OpenAI adapter on an
\* absent or empty provider value.
C8_UnrecognisedIsRejected ==
    /\ (Rejected(variant, RawProvider) /\ ResolutionOver) =>
          /\ adapterCalls = <<>>
          /\ requests = <<>>
          /\ clipboard = <<>>
          /\ ~Occurs("Completing", trace)
          /\ RunOver => error # NoError
          /\ variant = Main => error.at = "ResolvingConfig"
          /\ error.at \in {"ResolvingConfig", "Requesting"} =>
                error.message \in {<<"Unsupported provider: ", Str(RawProvider)>>,
                                   <<"Unsupported API provider: ", Str(RawProvider)>>}
          /\ error # NoError =>
                error.at \in {"ResolvingConfig", "AwaitingSelection", "Notifying", "Requesting"}
    /\ (variant = Legacy /\ ~Truthy(RawProvider) /\ adapterCalls # <<>>) =>
          adapterCalls = <<"openai">>

\* the dispatcher rejected a provider it does not know
W_C8 ==
    /\ RunOver
    /\ RawProvider = "bogus"
    /\ error.at = "Requesting"
    /\ error.message = <<"Unsupported API provider: ", "bogus">>

-----------------------------------------------------------------------------
(* C9 *)

\* C9 as stated: of the selected provider, the resolved model is the
\* custom-model preference when the model preference is "custom" and the
\* custom one is non-empty, the provider's default when the model preference
\* is "custom" and the custom one is empty or absent, and the model
\* preference when that is non-empty and not "custom"; it is never empty and
\* never the string "custom".
C9_ModelNeverCustom ==
    (variant = Main /\ pc = "AwaitingSelection") =>
        LET m == preferences[ModelField(apiProvider)]
            c == preferences[CustomField(apiProvider)]
        IN /\ (m = "custom" /\ Truthy(c)) => model = c
           /\ (m = "custom" /\ ~Truthy(c)) => model = DocumentedDefault(apiProvider)
           /\ (Truthy(m) /\ m # "custom") => model = m
           /\ Truthy(model)
           /\ model # "custom"

\* C9 amended: the same three cases; the resolved model is never empty, it
\* is the string "custom" only when the custom-model preference is itself
\* "custom", and it is always the selected provider's model preference, its
\* custom-model preference or its default, whatever the other providers'
\* preferences hold.
C9_ModelResolution ==
    (variant = Main /\ pc = "AwaitingSelection") =>
        LET m == preferences[ModelField(apiProvider)]
            c == preferences[CustomField(apiProvider)]
        IN /\ (m = "custom" /\ Truthy(c)) => model = c
           /\ (m = "custom" /\ ~Truthy(c)) => model = DocumentedDefault(apiProvider)
           /\ (Truthy(m) /\ m # "custom") => model = m
           /\ Truthy(model)
           /\ model = "custom" => (m = "custom" /\ c = "custom")
           /\ model \in {m, c, DocumentedDefault(apiProvider)}

\* the sentinel was set, with a custom model, next to other providers' models
W_C9 ==
    /\ variant = Main
    /\ pc = "AwaitingSelection"
    /\ apiProvider = "claude"
    /\ preferences.claudeModel = "custom"
    /\ preferences.claudeCustomModel = "claude-mine"
    /\ preferences.openaiModel = "gpt-4"
    /\ preferences.llamaCustomModel = "llama-mine"
    /\ model = "claude-mine"

-----------------------------------------------------------------------------
(* C10 *)

====
